---- MODULE Spec2Model ----
(***************************************************************************)
(* Model of the motion simulator of src/1.js (sims.js): the simulation     *)
(* state, the start / pause / reset controls, the slider and number        *)
(* inputs, the requestAnimationFrame scheduler and the simTick callback.   *)
(*                                                                         *)
(* Numbers.  The script computes with IEEE doubles; the model uses fixed   *)
(* point integers and rounds every quotient down:                          *)
(*   distances (covered_m, totals)   millimetres                           *)
(*   speeds                          millimetres per second                *)
(*   timestamps, simTime, dt         milliseconds                          *)
(*   pixels                          1/1000 pixel                          *)
(*   mass, turbo                     tenths                                *)
(*   speedMult, friction             hundredths                            *)
(*   track fraction, zone multiplier thousandths / tenths                  *)
(* The values of the number inputs are what Number(el.value) yields; an    *)
(* empty number input yields 0.                                            *)
(***************************************************************************)
EXTENDS Integers, Naturals, Sequences, FiniteSets, TLC

(***************************************************************************)
(* Bounds of the model.                                                    *)
(***************************************************************************)
\* number of animation frames in a behaviour
MaxFrames == 3
\* number of input edits (slider moves, typing, unit toggles) in a behaviour
MaxEdits == 1
\* number of simTick callbacks waiting for the next animation frame
MaxPending == 2
\* samples.max (1500 in the script), scaled down so that eviction happens
MaxSamples == 2
\* the trail capacity (1000 in the script), scaled down likewise
MaxTrail == 2
\* the capacity of the particle list (200 in the script), scaled down likewise
MaxParticles == 2
\* number of quiz questions, the first of quizData
MaxQuestions == 3
\* number of clicks on option buttons in one sitting of the quiz
MaxClicks == 5

(***************************************************************************)
(* Input domains.                                                          *)
(***************************************************************************)
\* timestamp of the first animation frame after init (ms)
InitTs == 100
\* gaps between two consecutive animation frames (ms): a regular frame and
\* a long gap such as a backgrounded tab produces
FrameGaps == {100, 600}
\* values of the distance slider (m, or km when the unit is km/h)
DistanceRangeValues == {1, 2}
\* values of the time slider (s, or h when the unit is km/h)
TimeRangeValues == {1, 2}
\* values of the friction slider, in hundredths (0 and 0.5)
FrictionValues == {0, 50}
\* values of the turbo slider, in tenths (1.0 and 4.0)
TurboRangeValues == {10, 40}
\* what Number(field.value) yields for the distance or time field while it is
\* being edited.  Every function reads the field before the slider and the
\* slider only when the field yields 0, so a typed nonzero value is read
\* exactly as the same slider value is; the empty field (0) is the value
\* typing adds.
TypedValues == {0}
\* moves of a mass slider, in tenths (object A to 2.0, which makes B the
\* faster object), and of a speed multiplier slider, in hundredths (object A
\* to 0, which the script reads as 1)
MassEdits == {<<"A", 20>>}
SpeedMultEdits == {<<"A", 0>>}
UnitValues == {"m_s", "km_h"}
\* the values of the fields when the page has loaded: init() copies each
\* number field to its slider (distance, time) or the slider to the field
InitDistance == 2
InitTime == 1
InitFriction == 0
InitTurbo == 10
Keys == {"A", "B"}

\* the value of state.lastTs when it is null
Null == -1

\* the value of twin in the specifications that have no second run
NoTwin == <<>>

(***************************************************************************)
(* Utility helpers.                                                        *)
(***************************************************************************)
Max(a, b) == IF a >= b THEN a ELSE b
Min(a, b) == IF a <= b THEN a ELSE b

\* const clamp = (v, a, b) => Math.max(a, Math.min(b, v));
clamp(v, a, b) == Max(a, Min(b, v))

\* x || y for numbers: 0 is falsy
OrElse(x, y) == IF x # 0 THEN x ELSE y

\* arr.push(v); the caller shifts
Push(s, v) == Append(s, v)
\* arr.shift()
Shift(s) == IF Len(s) = 0 THEN s ELSE Tail(s)

VARIABLES
  state,      \* [running, lastTs, simTime]
  objects,    \* objects.A, objects.B: [mass, speedMult, covered_m, trail]
  samples,    \* [t, aDist, bDist, aSpeed, bSpeed]
  ui,         \* the values of the inputs, sliders and the unit select
  rafQueue,   \* callbacks registered with requestAnimationFrame for the next frame
  frameQueue, \* callbacks of the frame being run, not yet called
  now,        \* timestamp of the current (last started) animation frame
  edits,      \* number of input edits so far
  frames,     \* number of animation frames so far
  particles,  \* the boost particles: the remaining life of each
  twin,       \* a second, independent run: [state, objects, samples, particles]
  hist,       \* history: [ctl, dirty, stale, cb], see below
  quiz        \* the quiz widget: its card, question index, answers, buttons, results

vars == <<state, objects, samples, ui, rafQueue, frameQueue, now, edits, frames,
          particles, twin, hist, quiz>>

(***************************************************************************)
(* Track geometry and zones.                                               *)
(***************************************************************************)
\* state.width, device pixels
canvasWidth == 1000

\* computeZones(): pad, startX, endX, total and the three zones (1/1000 px)
trackPad == ((canvasWidth * 6 + 50) \div 100) * 1000
trackStartPx == trackPad
trackEndPx == canvasWidth * 1000 - trackPad
trackLenPx == trackEndPx - trackStartPx
normalW == (trackLenPx * 35) \div 100
boostW == (trackLenPx * 30) \div 100
slowW == trackLenPx - (normalW + boostW)

computeZones ==
  << [id |-> "normal", x |-> trackStartPx, w |-> normalW, multiplier |-> 10],
     [id |-> "boost", x |-> trackStartPx + normalW, w |-> boostW, multiplier |-> 15],
     [id |-> "slow", x |-> trackStartPx + normalW + boostW, w |-> slowW, multiplier |-> 6] >>

\* the membership test of zoneAtPx
InZone(z, px) == px >= z.x /\ px <= z.x + z.w

\* for (const z of state.zones) if (...) return z; return state.zones[0];
zoneAtPx(px) ==
  LET zones == computeZones
      hits == {i \in 1..Len(zones) : InZone(zones[i], px)}
  IN IF hits = {} THEN zones[1]
     ELSE zones[CHOOSE i \in hits : \A j \in hits : i <= j]

(***************************************************************************)
(* Unit helpers.                                                           *)
(***************************************************************************)
isKmHSelected(u) == u.unitSelect = "km_h"

\* Number(distanceInput ? distanceInput.value : distanceRange.value), times
\* 1000 when km/h is selected; in millimetres
totalDistanceRaw(u) ==
  IF isKmHSelected(u) THEN u.distanceInput * 1000 * 1000 ELSE u.distanceInput * 1000

\* baseSpeed_mps(), in mm/s.  The time values of the model are integers, so
\* Math.max(0.0001, t) is t whenever t >= 1 and the guard only keeps the
\* divisor positive.
baseSpeed_mps(u) ==
  LET d == OrElse(u.distanceInput, OrElse(u.distanceRange, 100))
      t == OrElse(u.timeInput, OrElse(u.timeRange, 10))
  IN IF isKmHSelected(u)
       THEN (d * 1000 * 1000) \div Max(1, t * 3600)
       ELSE (d * 1000) \div Max(1, t)

(***************************************************************************)
(* Distance <-> pixel mapping.                                             *)
(***************************************************************************)
\* clamp(distMeters / totalDist, 0, 1), in thousandths
fracOf(dist, totalDist) == clamp((dist * 1000) \div totalDist, 0, 1000)

distanceToPixel(u, dist) ==
  IF OrElse(u.distanceInput, u.distanceRange) # 0
    THEN LET totalDist == totalDistanceRaw(u)
         IN IF totalDist <= 0 THEN trackStartPx
            ELSE trackStartPx + (fracOf(dist, totalDist) * trackLenPx) \div 1000
    ELSE trackStartPx + (fracOf(dist, 100 * 1000) * trackLenPx) \div 1000

pixelToDistance(u, px) ==
  LET frac == ((px - trackStartPx) * 1000) \div trackLenPx
      totalDistUI == totalDistanceRaw(u)
      totalDist == IF totalDistUI > 0 THEN totalDistUI ELSE 100 * 1000
  IN (clamp(frac, 0, 1000) * totalDist) \div 1000

(***************************************************************************)
(* Physics model.                                                          *)
(***************************************************************************)
\* effectiveSpeedFor(obj), in mm/s
effectiveSpeedFor(u, obj) ==
  LET base == baseSpeed_mps(u)
      sm == OrElse(obj.speedMult, 100)
      px == distanceToPixel(u, obj.covered_m)
      zoneMult == zoneAtPx(px).multiplier
      \* base * speedMult * zoneMult * (1 / max(0.0001, mass))
      eff == (base * sm * zoneMult) \div (100 * Max(1, obj.mass))
  IN IF ~(base > 0) THEN 0
     ELSE clamp(eff, 0, (base * Max(1, sm) * 6) \div 100)

\* the friction and turbo values simTick reads
frictionOf(u) == OrElse(u.frictionInput, OrElse(u.frictionRange, 0))
turboOf(u) == OrElse(u.turboInput, OrElse(u.turboRange, 10))

finalSpeedForFullFriction(u, obj) ==
  LET eff == effectiveSpeedFor(u, obj)
      effAfterF == (eff * (100 - clamp(frictionOf(u), 0, 100))) \div 100
  IN (effAfterF * clamp(turboOf(u), 1, 40)) \div 10

\* eff * (1 - clamp(friction, 0, 0.99)) * clamp(turbo, 0.1, 4), in mm/s
finalSpeedFor(u, obj) ==
  LET eff == effectiveSpeedFor(u, obj)
      effAfterF == (eff * (100 - clamp(frictionOf(u), 0, 99))) \div 100
  IN (effAfterF * clamp(turboOf(u), 1, 40)) \div 10

\* the time step of one tick, in ms: ts - lastTs, with lastTs := ts when unset
dtOf(st, ts) == ts - (IF st.lastTs = Null \/ st.lastTs = 0 THEN ts ELSE st.lastTs)

\* the body of the forEach of simTick for one object
tickObject(u, obj, dtMs, simTime1) ==
  LET finalSpeed == finalSpeedFor(u, obj)
      covered == clamp(obj.covered_m + (finalSpeed * dtMs) \div 1000, 0, totalDistanceRaw(u))
      pushed == Push(obj.trail, [x |-> distanceToPixel(u, covered), t |-> simTime1])
  IN [obj EXCEPT !.covered_m = covered,
                 !.trail = IF Len(pushed) > MaxTrail THEN Shift(pushed) ELSE pushed]

\* the instantaneous speed simTick records, in mm/s
instSpeed(tArr, dArr) ==
  LET n == Len(tArr)
  IN IF n >= 2 /\ tArr[n] - tArr[n - 1] > 0
       THEN ((dArr[n] - dArr[n - 1]) * 1000) \div (tArr[n] - tArr[n - 1])
       ELSE 0

\* the rows pushed by one tick
pushSamples(s, simTime1, objs) ==
  LET t1 == Push(s.t, simTime1)
      a1 == Push(s.aDist, objs["A"].covered_m)
      b1 == Push(s.bDist, objs["B"].covered_m)
  IN [t |-> t1, aDist |-> a1, bDist |-> b1,
      aSpeed |-> Push(s.aSpeed, instSpeed(t1, a1)),
      bSpeed |-> Push(s.bSpeed, instSpeed(t1, b1))]

trimSamplesKeepSpeeds(s) ==
  IF Len(s.t) > MaxSamples
    THEN [t |-> Shift(s.t), aDist |-> Shift(s.aDist), bDist |-> Shift(s.bDist),
          aSpeed |-> s.aSpeed, bSpeed |-> s.bSpeed]
    ELSE s

\* if (samples.t.length > samples.max) shift all five
trimSamples(s) ==
  IF Len(s.t) > MaxSamples
    THEN [t |-> Shift(s.t), aDist |-> Shift(s.aDist), bDist |-> Shift(s.bDist),
          aSpeed |-> Shift(s.aSpeed), bSpeed |-> Shift(s.bSpeed)]
    ELSE s

endedTickBoth(u, objs) ==
  objs["A"].covered_m >= totalDistanceRaw(u) /\ objs["B"].covered_m >= totalDistanceRaw(u)

\* the end condition of simTick: endedA || endedB
endedTick(u, objs) ==
  objs["A"].covered_m >= totalDistanceRaw(u) \/ objs["B"].covered_m >= totalDistanceRaw(u)

(***************************************************************************)
(* Boost particles.  drawBoostParticles() is called by drawFrame() on      *)
(* every tick; it is the only user of Math.random() and it reads and       *)
(* writes the particle list only.  A particle is modelled by its life, in  *)
(* tenths; its position and velocity are random too and are read by the    *)
(* canvas only.  Each call draws one life for the new particle and one     *)
(* decay, applied to every particle.  The particle list is display state:  *)
(* the specifications other than SpecTwin leave it empty.                  *)
(***************************************************************************)
\* 1 + Math.random() * 0.6 in tenths, and 0.02 + Math.random() * 0.02 scaled
\* up so that particles die within the frames of the model
RandomLives == {10, 16}
RandomDecays == {5, 10}

RECURSIVE agedParticles(_, _)
agedParticles(ps, decay) ==
  IF ps = <<>> THEN <<>>
  ELSE LET life == Head(ps) - decay
           rest == agedParticles(Tail(ps), decay)
       IN IF life <= 0 THEN rest ELSE <<life>> \o rest

RECURSIVE cappedParticles(_)
cappedParticles(ps) ==
  IF Len(ps) > MaxParticles THEN cappedParticles(Tail(ps)) ELSE ps

drawBoostParticles(ps, life, decay) ==
  cappedParticles(agedParticles(Append(ps, life), decay))

(***************************************************************************)
(* History variable, read by no action:                                    *)
(*   ctl    the last control that changed the run: "init", "start",        *)
(*          "pause", "reset", or "finish" (simTick ended the run)          *)
(*   dirty  whether the last reset discarded sample rows                   *)
(*   stale  whether a simTick callback was registered when the last reset  *)
(*          ran                                                            *)
(*   cb     what the last call of simTick did: "none", "ran", "skipped"    *)
(***************************************************************************)
initHist == [ctl |-> "init", dirty |-> FALSE, stale |-> FALSE, cb |-> "none"]

\* number of simTick callbacks registered with the scheduler or about to be called
pendingTicks ==
  Cardinality({i \in 1..Len(rafQueue) : rafQueue[i] = "simTick"})
    + Cardinality({i \in 1..Len(frameQueue) : frameQueue[i] = "simTick"})

(***************************************************************************)
(* The quiz widget.  It shares no state with the simulation.  Its three    *)
(* cards are the student form, the question card and the results card;     *)
(* the buttons of a card that is not displayed cannot be clicked, and a    *)
(* disabled button delivers no click.  The times the script records are    *)
(* displayed and mailed only and are left out.                             *)
(***************************************************************************)
\* q.a of each entry of quizData: the index of the correct option
quizData == <<2, 2, 1, 2, 1, 1, 1, 2, 1, 3>>

\* quizData.length, for the first MaxQuestions questions
quizLength == Min(MaxQuestions, Len(quizData))

\* the indices of q.o: every question has four options
OptionIndices == 0..3

\* let index = 0; let answers = []; the form displayed
initQuiz ==
  [card |-> "form", index |-> 0, answers |-> [i \in 0..(quizLength - 1) |-> Null],
   feedback |-> "", optDisabled |-> FALSE, nextDisabled |-> FALSE, prevDisabled |-> FALSE,
   score |-> Null, percent |-> Null, sent |-> <<>>, clicks |-> 0, correctClicks |-> 0]

(***************************************************************************)
(* Simulation controls.                                                    *)
(***************************************************************************)
emptySamples == [t |-> <<>>, aDist |-> <<>>, bDist |-> <<>>, aSpeed |-> <<>>, bSpeed |-> <<>>]

\* resetSimulation(): state.running, state.lastTs, state.simTime
resetState == [running |-> FALSE, lastTs |-> Null, simTime |-> 0]

resetObjectsKeepTrail(objs) ==
  [k \in Keys |-> [objs[k] EXCEPT !.covered_m = 0]]

\* resetSimulation(): covered_m and trail of both objects
resetObjects(objs) ==
  [k \in Keys |-> [objs[k] EXCEPT !.covered_m = 0, !.trail = <<>>]]

\* The state init() leaves: reset, the first frame of the intro registered.
\* The second value of rafQueue is the state once the intro has run to its
\* end without any user event: the same, with no callback registered.  The
\* script reads only differences of timestamps, so the behaviours from that
\* state count their timestamps from InitTs as well.
Init ==
  /\ state = resetState
  /\ objects = [A |-> [mass |-> 10, speedMult |-> 100, covered_m |-> 0, trail |-> <<>>],
                B |-> [mass |-> 12, speedMult |-> 98, covered_m |-> 0, trail |-> <<>>]]
  /\ samples = emptySamples
  /\ ui = [distanceInput |-> InitDistance, distanceRange |-> InitDistance,
           timeInput |-> InitTime, timeRange |-> InitTime,
           frictionInput |-> InitFriction, frictionRange |-> InitFriction,
           turboInput |-> InitTurbo, turboRange |-> InitTurbo,
           unitSelect |-> "m_s"]
  /\ rafQueue \in {<<"intro">>, <<>>}
  /\ frameQueue = <<>>
  /\ now = InitTs
  /\ edits = 0
  /\ frames = 0
  /\ quiz = initQuiz
  /\ particles = <<>>
  /\ twin = NoTwin
  /\ hist = initHist

\* user events are handled between frames, never between two callbacks of a frame
Idle == frameQueue = <<>>

resetSimulation ==
  /\ Idle
  /\ state' = resetState
  /\ objects' = resetObjects(objects)
  /\ samples' = emptySamples
  /\ hist' = [hist EXCEPT !.ctl = "reset", !.dirty = (Len(samples.t) > 0),
                          !.stale = (pendingTicks > 0)]
  /\ UNCHANGED <<ui, rafQueue, frameQueue, now, frames, particles, twin, edits, quiz>>

startEffectKeepsLastTs ==
  /\ pendingTicks < MaxPending
  /\ state' = [running |-> TRUE, lastTs |-> state.lastTs,
               simTime |-> IF state.simTime <= 0 THEN 0 ELSE state.simTime]
  /\ objects' = IF state.simTime <= 0 THEN resetObjects(objects) ELSE objects
  /\ samples' = IF state.simTime <= 0 THEN emptySamples ELSE samples
  /\ rafQueue' = Append(rafQueue, "simTick")
  /\ hist' = [hist EXCEPT !.ctl = "start", !.dirty = FALSE, !.stale = FALSE]

\* startSimulation() when state.running is false
startEffect ==
  /\ pendingTicks < MaxPending
  /\ state' = [running |-> TRUE, lastTs |-> Null,
               simTime |-> IF state.simTime <= 0 THEN 0 ELSE state.simTime]
  /\ objects' = IF state.simTime <= 0 THEN resetObjects(objects) ELSE objects
  /\ samples' = IF state.simTime <= 0 THEN emptySamples ELSE samples
  /\ rafQueue' = Append(rafQueue, "simTick")
  /\ hist' = [hist EXCEPT !.ctl = "start", !.dirty = FALSE, !.stale = FALSE]

\* pauseSimulation()
pauseEffect ==
  /\ state' = [state EXCEPT !.running = FALSE]
  /\ hist' = [hist EXCEPT !.ctl = "pause", !.dirty = FALSE, !.stale = FALSE]
  /\ UNCHANGED <<objects, samples, rafQueue>>

startSimulationRestarts ==
  /\ Idle
  /\ startEffect
  /\ UNCHANGED <<ui, frameQueue, now, frames, particles, twin, edits, quiz>>

startSimulation ==
  /\ Idle
  /\ IF state.running
       THEN UNCHANGED <<state, objects, samples, rafQueue, hist>>
       ELSE startEffect
  /\ UNCHANGED <<ui, frameQueue, now, frames, particles, twin, edits, quiz>>

pauseSimulation ==
  /\ Idle
  /\ pauseEffect
  /\ UNCHANGED <<ui, frameQueue, now, frames, particles, twin, edits, quiz>>

\* Space key, click and touchstart on the canvas:
\* state.running ? pauseSimulation() : startSimulation()
toggleSimulation ==
  /\ Idle
  /\ IF state.running THEN pauseEffect ELSE startEffect
  /\ UNCHANGED <<ui, frameQueue, now, frames, particles, twin, edits, quiz>>

(***************************************************************************)
(* Inputs.  bindRangeNumber couples a slider with its number field: moving *)
(* the slider writes both; typing in the field changes the field only      *)
(* (its change event, which writes both, fires on commit).  An event fires *)
(* only when the value changes.                                            *)
(***************************************************************************)
CanEdit == Idle /\ edits < MaxEdits

editUi(field, v) ==
  /\ CanEdit
  /\ ui[field] # v
  /\ ui' = [ui EXCEPT ![field] = v]
  /\ edits' = edits + 1
  /\ UNCHANGED <<state, objects, samples, rafQueue, frameQueue, now, frames, particles, twin, hist, quiz>>

editPair(range, field, v) ==
  /\ CanEdit
  /\ ui[range] # v \/ ui[field] # v
  /\ ui' = [ui EXCEPT ![range] = v, ![field] = v]
  /\ edits' = edits + 1
  /\ UNCHANGED <<state, objects, samples, rafQueue, frameQueue, now, frames, particles, twin, hist, quiz>>

distanceRangeInput == \E v \in DistanceRangeValues : editPair("distanceRange", "distanceInput", v)
distanceInputTyped == \E v \in TypedValues : editUi("distanceInput", v)
timeRangeInput == \E v \in TimeRangeValues : editPair("timeRange", "timeInput", v)
timeInputTyped == \E v \in TypedValues : editUi("timeInput", v)
frictionRangeInput == \E v \in FrictionValues : editPair("frictionRange", "frictionInput", v)
turboRangeInput == \E v \in TurboRangeValues : editPair("turboRange", "turboInput", v)
unitSelectChange == \E v \in UnitValues : editUi("unitSelect", v)

\* the onChange of the mass pair: objects[k].mass = Number(massInput.value)
massChange ==
  \E e \in MassEdits :
    /\ CanEdit
    /\ objects[e[1]].mass # e[2]
    /\ objects' = [objects EXCEPT ![e[1]].mass = e[2]]
    /\ edits' = edits + 1
    /\ UNCHANGED <<state, samples, ui, rafQueue, frameQueue, now, frames, particles, twin, hist, quiz>>

\* the onChange of the speed multiplier pair
speedMultChange ==
  \E e \in SpeedMultEdits :
    /\ CanEdit
    /\ objects[e[1]].speedMult # e[2]
    /\ objects' = [objects EXCEPT ![e[1]].speedMult = e[2]]
    /\ edits' = edits + 1
    /\ UNCHANGED <<state, samples, ui, rafQueue, frameQueue, now, frames, particles, twin, hist, quiz>>

(***************************************************************************)
(* The frame scheduler.  An animation frame calls, in registration order   *)
(* and with one timestamp, the callbacks registered before it began;       *)
(* callbacks registered meanwhile wait for the next frame.  A frame for     *)
(* which no callback is registered runs no code of the script and is no    *)
(* step; the time it takes is part of the gap of the next frame that has   *)
(* a callback.                                                             *)
(***************************************************************************)
frameStep(gap) ==
  /\ Idle
  /\ rafQueue # <<>>
  /\ now' = now + gap
  /\ frameQueue' = rafQueue
  /\ rafQueue' = <<>>
  /\ UNCHANGED <<state, objects, samples, ui, edits, hist, quiz>>

animationFrame ==
  \E gap \in FrameGaps :
    /\ frames < MaxFrames
    /\ frames' = frames + 1
    /\ frameStep(gap)
    /\ UNCHANGED <<particles, twin>>

\* the frame calls the next callback of its queue
callNext ==
  /\ frameQueue # <<>>
  /\ frameQueue' = Tail(frameQueue)

\* simTick(ts) past its guard: state.running holds
tickRunning(ts) ==
  LET dtMs == dtOf(state, ts)
      simTime1 == state.simTime + dtMs
      objs1 == [k \in Keys |-> tickObject(ui, objects[k], dtMs, simTime1)]
      pushed == pushSamples(samples, simTime1, objs1)
      ended == endedTick(ui, objs1)
  IN /\ objects' = objs1
     /\ IF ended
          THEN /\ state' = [state EXCEPT !.running = FALSE, !.lastTs = ts, !.simTime = simTime1]
               /\ samples' = pushed
               /\ rafQueue' = rafQueue
               /\ hist' = [ctl |-> "finish", dirty |-> FALSE, stale |-> FALSE, cb |-> "ran"]
          ELSE /\ state' = [state EXCEPT !.lastTs = ts, !.simTime = simTime1]
               /\ samples' = trimSamples(pushed)
               /\ rafQueue' = Append(rafQueue, "simTick")
               /\ hist' = [hist EXCEPT !.cb = "ran"]

tickSkippedRequeue ==
  /\ rafQueue' = Append(rafQueue, "simTick")
  /\ UNCHANGED <<state, objects, samples>>

\* simTick(ts) when state.running is false: if (!state.running) return;
tickSkipped ==
  UNCHANGED <<state, objects, samples, rafQueue>>

simTickUnguarded ==
  /\ callNext
  /\ Head(frameQueue) = "simTick"
  /\ tickRunning(now)
  /\ UNCHANGED <<ui, now, frames, particles, twin, edits, quiz>>

simTick ==
  /\ callNext
  /\ Head(frameQueue) = "simTick"
  /\ IF ~state.running
       THEN tickSkipped /\ hist' = [hist EXCEPT !.cb = "skipped"]
       ELSE tickRunning(now)
  /\ UNCHANGED <<ui, now, frames, particles, twin, edits, quiz>>

\* introSlide(): start = performance.now(), duration = 650, offs = -120
introStart == InitTs
introDuration == 650
introOffs == -120

\* t = clamp((ts - start) / duration, 0, 1), in thousandths
introT(ts) == clamp(((ts - introStart) * 1000) \div introDuration, 0, 1000)

\* px = trackStartPx + offs * (1 - ease), ease = 1 - (1 - t)^3
introPx(ts) ==
  LET r == 1000 - introT(ts)
  IN trackStartPx + introOffs * ((r * r * r) \div 1000000)

\* frame(ts) of introSlide
introFrame ==
  /\ callNext
  /\ Head(frameQueue) = "intro"
  /\ objects' = [k \in Keys |->
                   [objects[k] EXCEPT !.covered_m =
                      IF introT(now) < 1000 THEN pixelToDistance(ui, introPx(now)) ELSE 0]]
  /\ rafQueue' = IF introT(now) < 1000 THEN Append(rafQueue, "intro") ELSE rafQueue
  /\ UNCHANGED <<state, samples, ui, now, frames, particles, twin, edits, hist, quiz>>

Next ==
  \/ resetSimulation
  \/ startSimulation
  \/ pauseSimulation
  \/ toggleSimulation
  \/ distanceRangeInput
  \/ distanceInputTyped
  \/ timeRangeInput
  \/ timeInputTyped
  \/ frictionRangeInput
  \/ turboRangeInput
  \/ unitSelectChange
  \/ massChange
  \/ speedMultChange
  \/ animationFrame
  \/ simTick
  \/ introFrame

Spec == Init /\ [][Next]_vars

(***************************************************************************)
(* A run at maximum friction that keeps receiving frames and is neither    *)
(* paused, reset nor edited: the state startSimulation leaves, with the    *)
(* friction slider at 100.  Frames stop at the horizon MaxFrictionTs.      *)
(***************************************************************************)
\* horizon of the maximum-friction run, in units of 100 ms
MaxFrictionTs == 2000
\* the maximum of the friction slider (100), in hundredths
MaxFriction == 10000
\* frame gaps of the maximum-friction run (ms): long enough for a step at
\* 1% of the base speed to be at least one millimetre, the resolution of
\* the model
MaxFrictionGaps == {1000, 4000}

InitMaxFriction ==
  /\ state = [running |-> TRUE, lastTs |-> Null, simTime |-> 0]
  /\ objects = [A |-> [mass |-> 10, speedMult |-> 100, covered_m |-> 0, trail |-> <<>>],
                B |-> [mass |-> 12, speedMult |-> 98, covered_m |-> 0, trail |-> <<>>]]
  /\ samples = emptySamples
  /\ \E d \in DistanceRangeValues, tb \in TurboRangeValues :
       ui = [distanceInput |-> d, distanceRange |-> d,
             timeInput |-> InitTime, timeRange |-> InitTime,
             frictionInput |-> MaxFriction, frictionRange |-> MaxFriction,
             turboInput |-> tb, turboRange |-> tb,
             unitSelect |-> "m_s"]
  /\ rafQueue = <<"simTick">>
  /\ frameQueue = <<>>
  /\ now = InitTs
  /\ edits = 0
  /\ frames = 0
  /\ quiz = initQuiz
  /\ particles = <<>>
  /\ twin = NoTwin
  /\ hist = [ctl |-> "start", dirty |-> FALSE, stale |-> FALSE, cb |-> "none"]

\* a frame with dt > 0 while a callback is registered
maxFrictionFrame ==
  \E gap \in MaxFrictionGaps :
    /\ rafQueue # <<>>
    /\ now + gap <= MaxFrictionTs * 100
    /\ frameStep(gap)
    /\ UNCHANGED <<frames, particles, twin>>

NextMaxFriction ==
  \/ maxFrictionFrame
  \/ simTick

\* Fairness: the browser keeps producing frames while a callback is
\* registered, and a frame calls every callback of its queue.
SpecMaxFriction ==
  /\ InitMaxFriction
  /\ [][NextMaxFriction]_vars
  /\ WF_vars(maxFrictionFrame)
  /\ WF_frameQueue(callNext)

(***************************************************************************)
(* Two independent runs, both started from reset with the same parameters  *)
(* and fed the same frame timestamps.  Each run draws its own random       *)
(* values for its particles.  The first run is the run of the other        *)
(* specifications; the second is kept in twin and stepped by tickTwin.     *)
(***************************************************************************)
tickTwinReadsParticles(tw, u, ts) ==
  IF ~tw.state.running THEN tw
  ELSE LET dtMs == dtOf(tw.state, ts) + Len(tw.particles)
           simTime1 == tw.state.simTime + dtMs
           objs1 == [k \in Keys |-> tickObject(u, tw.objects[k], dtMs, simTime1)]
           pushed == pushSamples(tw.samples, simTime1, objs1)
           ended == endedTick(u, objs1)
       IN [state |-> [tw.state EXCEPT !.running = ~ended, !.lastTs = ts, !.simTime = simTime1],
           objects |-> objs1,
           samples |-> IF ended THEN pushed ELSE trimSamples(pushed),
           particles |-> tw.particles]

\* simTick(ts) of the second run, up to drawFrame()
tickTwin(tw, u, ts) ==
  IF ~tw.state.running THEN tw
  ELSE LET dtMs == dtOf(tw.state, ts)
           simTime1 == tw.state.simTime + dtMs
           objs1 == [k \in Keys |-> tickObject(u, tw.objects[k], dtMs, simTime1)]
           pushed == pushSamples(tw.samples, simTime1, objs1)
           ended == endedTick(u, objs1)
       IN [state |-> [tw.state EXCEPT !.running = ~ended, !.lastTs = ts, !.simTime = simTime1],
           objects |-> objs1,
           samples |-> IF ended THEN pushed ELSE trimSamples(pushed),
           particles |-> tw.particles]

\* both runs after resetSimulation() and startSimulation()
InitTwin ==
  /\ state = [running |-> TRUE, lastTs |-> Null, simTime |-> 0]
  /\ objects = [A |-> [mass |-> 10, speedMult |-> 100, covered_m |-> 0, trail |-> <<>>],
                B |-> [mass |-> 12, speedMult |-> 98, covered_m |-> 0, trail |-> <<>>]]
  /\ samples = emptySamples
  /\ \E d \in DistanceRangeValues, f \in FrictionValues, tb \in TurboRangeValues :
       ui = [distanceInput |-> d, distanceRange |-> d,
             timeInput |-> InitTime, timeRange |-> InitTime,
             frictionInput |-> f, frictionRange |-> f,
             turboInput |-> tb, turboRange |-> tb,
             unitSelect |-> "m_s"]
  /\ rafQueue = <<"simTick">>
  /\ frameQueue = <<>>
  /\ now = InitTs
  /\ edits = 0
  /\ frames = 0
  /\ quiz = initQuiz
  /\ particles = <<>>
  /\ twin = [state |-> state, objects |-> objects, samples |-> samples, particles |-> <<>>]
  /\ hist = [ctl |-> "start", dirty |-> FALSE, stale |-> FALSE, cb |-> "none"]

\* one frame callback: simTick(ts) of both runs with the timestamp of the frame
twinTick ==
  /\ callNext
  /\ Head(frameQueue) = "simTick"
  /\ IF ~state.running
       THEN /\ tickSkipped
            /\ hist' = [hist EXCEPT !.cb = "skipped"]
            /\ UNCHANGED <<particles, twin>>
       ELSE /\ tickRunning(now)
            /\ \E life \in RandomLives, decay \in RandomDecays :
                 particles' = drawBoostParticles(particles, life, decay)
            /\ LET ticked == tickTwin(twin, ui, now)
               IN \E life \in RandomLives, decay \in RandomDecays :
                    twin' = [ticked EXCEPT !.particles =
                               drawBoostParticles(twin.particles, life, decay)]
  /\ UNCHANGED <<ui, now, frames, edits, quiz>>

twinFrame ==
  \E gap \in FrameGaps :
    /\ frames < MaxFrames
    /\ frames' = frames + 1
    /\ frameStep(gap)
    /\ UNCHANGED <<particles, twin>>

NextTwin ==
  \/ twinFrame
  \/ twinTick

SpecTwin == InitTwin /\ [][NextTwin]_vars

(***************************************************************************)
(* A run in mid course: the state after a pause, a resume and the first    *)
(* tick that follows (dt = 0), with the objects anywhere on the track,     *)
(* the zone boundaries included, and the mass and speed multiplier of A    *)
(* drawn from their sliders.                                               *)
(***************************************************************************)
\* covered distances, in thousandths of the total: the start, both zone
\* boundaries, a position just after each boundary, and just before the end
MidRunFractions == {0, 350, 351, 650, 651, 999}
\* mass of A in tenths, speed multiplier of A in hundredths
MidRunMasses == {1, 10, 20}
MidRunSpeedMults == {0, 50, 100}
MidRunSimTime == 100

midRunObject(u, mass, speedMult, frac) ==
  LET covered == (frac * totalDistanceRaw(u)) \div 1000
  IN [mass |-> mass, speedMult |-> speedMult, covered_m |-> covered,
      trail |-> <<[x |-> distanceToPixel(u, covered), t |-> MidRunSimTime]>>]

InitMidRun ==
  /\ state = [running |-> TRUE, lastTs |-> InitTs, simTime |-> MidRunSimTime]
  /\ ui = [distanceInput |-> InitDistance, distanceRange |-> InitDistance,
           timeInput |-> InitTime, timeRange |-> InitTime,
           frictionInput |-> InitFriction, frictionRange |-> InitFriction,
           turboInput |-> InitTurbo, turboRange |-> InitTurbo,
           unitSelect |-> "m_s"]
  /\ \E m \in MidRunMasses, sm \in MidRunSpeedMults, fa \in MidRunFractions,
        fb \in MidRunFractions :
       objects = [A |-> midRunObject(ui, m, sm, fa), B |-> midRunObject(ui, 12, 98, fb)]
  /\ samples = [t |-> <<MidRunSimTime>>,
                aDist |-> <<objects["A"].covered_m>>, bDist |-> <<objects["B"].covered_m>>,
                aSpeed |-> <<0>>, bSpeed |-> <<0>>]
  /\ rafQueue = <<"simTick">>
  /\ frameQueue = <<>>
  /\ now = InitTs
  /\ edits = 0
  /\ frames = 0
  /\ quiz = initQuiz
  /\ particles = <<>>
  /\ twin = NoTwin
  /\ hist = [ctl |-> "start", dirty |-> FALSE, stale |-> FALSE, cb |-> "ran"]

NextMidRun ==
  \/ animationFrame
  \/ simTick

SpecMidRun == InitMidRun /\ [][NextMidRun]_vars

(***************************************************************************)
(* The handlers of the quiz widget.                                        *)
(***************************************************************************)
loadKeepsNext(q) ==
  [q EXCEPT !.feedback = "", !.optDisabled = FALSE, !.prevDisabled = (q.index = 0)]

\* load(): fresh option buttons, Next disabled, Previous disabled on the first question
load(q) ==
  [q EXCEPT !.feedback = "", !.optDisabled = FALSE,
            !.nextDisabled = TRUE, !.prevDisabled = (q.index = 0)]

\* the forEach of showResults: if (answers[i] === q.a) score++, for questions 0..i
RECURSIVE scoreUpTo(_, _)
scoreUpTo(answers, i) ==
  IF i < 0 THEN 0
  ELSE scoreUpTo(answers, i - 1) + (IF answers[i] = quizData[i + 1] THEN 1 ELSE 0)

\* Math.round((score / quizData.length) * 100): the nearest integer, halves up
percentOf(score) == (200 * score + quizLength) \div (2 * quizLength)

showResultsCountsClicks(q) ==
  LET score == q.correctClicks
  IN [q EXCEPT !.card = "results", !.score = score, !.percent = percentOf(score),
               !.sent = Append(q.sent, [score |-> score, percent |-> percentOf(score)])]

\* showResults(): the results card, the score, the percent, the mail
showResults(q) ==
  LET score == scoreUpTo(q.answers, quizLength - 1)
  IN [q EXCEPT !.card = "results", !.score = score, !.percent = percentOf(score),
               !.sent = Append(q.sent, [score |-> score, percent |-> percentOf(score)])]

\* the state before the Start button is clicked; the simulation is not involved
InitQuiz ==
  /\ Init
  /\ rafQueue = <<>>

\* start.onclick: refused unless name and section are filled in
startClick ==
  /\ quiz.card = "form"
  /\ \E filled \in BOOLEAN :
       quiz' = IF ~filled THEN quiz ELSE load([quiz EXCEPT !.card = "quiz"])
  /\ UNCHANGED <<state, objects, samples, ui, rafQueue, frameQueue, now, edits, frames,
                 particles, twin, hist>>

\* btn.onclick of option i of the question displayed
optionClick ==
  /\ quiz.card = "quiz"
  /\ ~quiz.optDisabled
  /\ quiz.clicks < MaxClicks
  /\ \E i \in OptionIndices :
       LET correct == (i = quizData[quiz.index + 1])
       IN quiz' = [quiz EXCEPT !.answers[quiz.index] = i,
                               !.feedback = IF correct THEN "Correct" ELSE "Incorrect",
                               !.optDisabled = TRUE,
                               !.nextDisabled = FALSE,
                               !.clicks = quiz.clicks + 1,
                               !.correctClicks = quiz.correctClicks + (IF correct THEN 1 ELSE 0)]
  /\ UNCHANGED <<state, objects, samples, ui, rafQueue, frameQueue, now, edits, frames,
                 particles, twin, hist>>

\* next.onclick
nextClick ==
  /\ quiz.card = "quiz"
  /\ ~quiz.nextDisabled
  /\ quiz' = IF quiz.index < quizLength - 1
               THEN load([quiz EXCEPT !.index = quiz.index + 1])
               ELSE showResults(quiz)
  /\ UNCHANGED <<state, objects, samples, ui, rafQueue, frameQueue, now, edits, frames,
                 particles, twin, hist>>

\* prev.onclick
prevClick ==
  /\ quiz.card = "quiz"
  /\ ~quiz.prevDisabled
  /\ quiz' = IF quiz.index > 0 THEN load([quiz EXCEPT !.index = quiz.index - 1]) ELSE quiz
  /\ UNCHANGED <<state, objects, samples, ui, rafQueue, frameQueue, now, edits, frames,
                 particles, twin, hist>>

NextQuiz ==
  \/ startClick
  \/ optionClick
  \/ nextClick
  \/ prevClick

SpecQuiz == InitQuiz /\ [][NextQuiz]_vars

(***************************************************************************)
(* Properties.                                                             *)
(***************************************************************************)
Last(s) == s[Len(s)]

\* C1: in every reachable state each object's covered distance is >= 0 and
\* <= the currently configured total distance.
C1_CoveredWithinTotal ==
  \A k \in Keys :
    /\ objects[k].covered_m >= 0
    /\ objects[k].covered_m <= totalDistanceRaw(ui)

\* C2: a frame tick never decreases the covered distance of an object.
C2_CoveredNeverDecreases ==
  [][simTick => \A k \in Keys : objects'[k].covered_m >= objects[k].covered_m]_vars

\* the bound of claim C3: 6 x baseSpeed x max(0.01, speedMult) x 4, in mm/s
speedBound(u, obj) ==
  ((6 * baseSpeed_mps(u) * Max(1, OrElse(obj.speedMult, 100))) \div 100) * 4

\* C3: every speed a tick records for an object is >= 0 and at most
\* 6 x baseSpeed x max(0.01, speedMult) x 4.
C3_RecordedSpeedsBounded ==
  [][(simTick /\ state.running) =>
       /\ Last(samples'.aSpeed) >= 0
       /\ Last(samples'.aSpeed) <= speedBound(ui, objects["A"])
       /\ Last(samples'.bSpeed) >= 0
       /\ Last(samples'.bSpeed) <= speedBound(ui, objects["B"])]_vars

\* C4: one frame tick advances simTime by at most 0.1 s, whatever the gap
\* between the two frame timestamps.
C4_DtClamped ==
  [][(simTick /\ state.running) => state'.simTime - state.simTime <= 100]_vars

\* the configured total time in ms, and the safety-valve limit of claim C5:
\* the larger of 1.5 x totalTime and totalTime + 5 s
totalTimeMs(u) ==
  LET t == OrElse(u.timeInput, OrElse(u.timeRange, 10))
  IN IF isKmHSelected(u) THEN t * 3600 * 1000 ELSE t * 1000
safetyValveMs(u) == Max((totalTimeMs(u) * 3) \div 2, totalTimeMs(u) + 5000)

C6_MaxFrictionRunEnds ==
  <>(~state.running /\ \E k \in Keys : objects[k].covered_m >= totalDistanceRaw(ui))

C6_Witness ==
  /\ frictionOf(ui) = MaxFriction
  /\ hist.ctl = "finish"
  /\ ~state.running
  /\ state.simTime > 0
  /\ objects["A"].covered_m = totalDistanceRaw(ui)

\* the state resetSimulation is to leave
Cleared(st, objs, smp) ==
  /\ st.running = FALSE
  /\ st.lastTs = Null
  /\ st.simTime = 0
  /\ \A k \in Keys : objs[k].covered_m = 0 /\ objs[k].trail = <<>>
  /\ smp.t = <<>> /\ smp.aDist = <<>> /\ smp.bDist = <<>>
  /\ smp.aSpeed = <<>> /\ smp.bSpeed = <<>>

\* C7: reset leaves running=false, lastTs=null, simTime=0, both covered
\* distances 0, both trails and all five sample sequences empty, and a
\* second reset changes nothing of that.
C7_ResetClearsAndIsIdempotent ==
  [][resetSimulation =>
       /\ Cleared(state', objects', samples')
       /\ resetObjects(objects') = objects'
       /\ \A k \in Keys : objects'[k].mass = objects[k].mass
                          /\ objects'[k].speedMult = objects[k].speedMult]_vars

C7_Witness ==
  /\ hist.ctl = "reset"
  /\ hist.dirty
  /\ Cleared(state, objects, samples)

\* C8: reset returns the simulation to idle with samples and trails
\* discarded, and from then on no step other than a start (a callback
\* scheduled before the reset included) adds a sample, a trail entry or time.
C8_ResetStaysCleared ==
  [][/\ resetSimulation => (~state'.running /\ samples' = emptySamples)
     /\ (/\ ~state.running /\ state.simTime = 0 /\ samples = emptySamples
         /\ \A k \in Keys : objects[k].trail = <<>>
         /\ ~state'.running)
          => (/\ state'.simTime = 0 /\ samples' = emptySamples
              /\ \A k \in Keys : objects'[k].trail = <<>>)]_vars

C8_Witness ==
  /\ hist.ctl = "reset"
  /\ hist.stale
  /\ hist.cb = "skipped"
  /\ pendingTicks = 0
  /\ samples = emptySamples
  /\ state.simTime = 0

\* C9: at most one simTick callback is pending on the frame scheduler.
C9_AtMostOneTickPending == pendingTicks <= 1

\* C10: a simTick callback that fires while running is false changes neither
\* simTime, lastTs, the covered distances, the trails nor the samples, and
\* registers no callback.
C10_SkippedTickChangesNothing ==
  [][(simTick /\ ~state.running) =>
       /\ state' = state
       /\ objects' = objects
       /\ samples' = samples
       /\ rafQueue' = rafQueue]_vars

C10_Witness ==
  /\ hist.cb = "skipped"
  /\ hist.ctl = "pause"
  /\ pendingTicks = 0
  /\ state.simTime > 0
  /\ Len(samples.t) > 0

otherUnit(u) ==
  [u EXCEPT !.unitSelect = IF isKmHSelected(u) THEN "m_s" ELSE "km_h"]

\* C12: the unit mode does not affect the physics.  Two runs from reset with
\* the same numbers and timestamps are in the same state up to their first
\* tick with dt > 0; on that tick the covered distances are the same in
\* both unit modes.
C12_UnitModeDisplayOnly ==
  [][(/\ simTick /\ state.running
      /\ state.simTime = 0
      /\ \A k \in Keys : objects[k].covered_m = 0)
       => \A k \in Keys :
            tickObject(otherUnit(ui), objects[k], state'.simTime - state.simTime,
                       state'.simTime).covered_m = objects'[k].covered_m]_vars

\* the pixel position of an object and the zones whose membership test it passes
pxOf(k) == distanceToPixel(ui, objects[k].covered_m)
zonesAt(px) == {i \in 1..Len(computeZones) : InZone(computeZones[i], px)}

\* C13: the zones tile the track without gap or overlap: every object on
\* the track passes the membership test of exactly one zone, the zone
\* zoneAtPx returns.
C13_ZonesPartitionTrack ==
  /\ computeZones[1].x = trackStartPx
  /\ computeZones[3].x + computeZones[3].w = trackEndPx
  /\ \A k \in Keys :
       /\ Cardinality(zonesAt(pxOf(k))) = 1
       /\ \A i \in zonesAt(pxOf(k)) : zoneAtPx(pxOf(k)) = computeZones[i]

\* C14: an object exactly on the normal/boost boundary is in the boost zone
\* and an object exactly on the boost/slow boundary is in the slow zone.
C14_BoundaryBelongsToLaterZone ==
  \A k \in Keys :
    /\ pxOf(k) = computeZones[2].x => zoneAtPx(pxOf(k)).id = "boost"
    /\ pxOf(k) = computeZones[3].x => zoneAtPx(pxOf(k)).id = "slow"

SampleFields == {"t", "aDist", "bDist", "aSpeed", "bSpeed"}

\* the sequence s1 is s0, or s0 with one value appended, or that with its
\* first value evicted
AppendedOrEvicted(s0, s1) ==
  \/ s1 = s0
  \/ Len(s1) = Len(s0) + 1 /\ SubSeq(s1, 1, Len(s0)) = s0
  \/ Len(s1) = Len(s0) /\ Len(s0) > 0 /\ SubSeq(s1, 1, Len(s0) - 1) = Tail(s0)

\* C15: after every step the five sample sequences have the same length; a
\* reset (resetSimulation, or a start at simTime 0, which resets) empties
\* them, and every other step leaves each of them alone, appends one value
\* at its end, or appends one and evicts the first.
C15_SampleRowsStayAligned ==
  [][/\ \A f \in SampleFields : Len(samples'[f]) = Len(samples'.t)
     /\ IF resetSimulation \/ (~state.running /\ state'.running /\ state.simTime <= 0)
          THEN samples' = emptySamples
          ELSE \A f \in SampleFields : AppendedOrEvicted(samples[f], samples'[f])]_vars

C15_Witness ==
  /\ state.running
  /\ hist.cb = "ran"
  /\ Len(samples.aSpeed) = MaxSamples
  /\ samples.t[1] > 0

\* C16: each sample sequence holds at most samples.max values and each
\* trail at most its capacity, after the finishing tick as after any other.
C16_SamplesAndTrailsCapped ==
  /\ \A f \in SampleFields : Len(samples[f]) <= MaxSamples
  /\ \A k \in Keys : Len(objects[k].trail) <= MaxTrail

\* the total distance with the fallback baseSpeed_mps applies to the
\* distance: the field, else the slider, else 100; in millimetres
totalDistanceFallback(u) ==
  LET d == OrElse(u.distanceInput, OrElse(u.distanceRange, 100))
  IN IF isKmHSelected(u) THEN d * 1000 * 1000 ELSE d * 1000

\* C17: on every running tick the upper clamp of the covered distance and
\* the finish test use the total distance with the same fallback the base
\* speed uses, also while the distance field does not parse.
C17_UnparsedDistanceFallsBack ==
  [][(simTick /\ state.running) =>
       LET dtMs == state'.simTime - state.simTime
           total == totalDistanceFallback(ui)
       IN /\ \A k \in Keys :
               objects'[k].covered_m =
                 clamp(objects[k].covered_m + (finalSpeedFor(ui, objects[k]) * dtMs) \div 1000,
                       0, total)
          /\ state'.running <=> \A k \in Keys : objects'[k].covered_m < total]_vars

\* the speed the last tick recorded for an object
lastSpeed(smp, k) == IF k = "A" THEN Last(smp.aSpeed) ELSE Last(smp.bSpeed)

\* C18: while no input is edited, an object that has reached the total
\* distance after a tick is exactly at the total and the speed that tick
\* records for it is 0, and a tick does not move an object that had arrived.
C18_ArrivedObjectStops ==
  [][(simTick /\ state.running /\ edits = 0) =>
       \A k \in Keys :
         /\ objects'[k].covered_m >= totalDistanceRaw(ui)
              => /\ objects'[k].covered_m = totalDistanceRaw(ui)
                 /\ lastSpeed(samples', k) = 0
         /\ objects[k].covered_m >= totalDistanceRaw(ui)
              => objects'[k].covered_m = objects[k].covered_m]_vars

\* the speed of claim C19, in mm/s: the effective speed derated by
\* 1 - min(f / 200, 0.9) for the friction percentage f, times the turbo
speedDeratedByHalfPercent(u, obj) ==
  LET eff == effectiveSpeedFor(u, obj)
      effAfterF == (eff * (20000 - Min(frictionOf(u), 18000))) \div 20000
  IN (effAfterF * clamp(turboOf(u), 1, 40)) \div 10

\* C19: the speed a tick applies is the effective speed derated by
\* 1 - min(f / 200, 0.9), hence at least a tenth of the undamped speed.
C19_FrictionDerate ==
  \A k \in Keys :
    /\ finalSpeedFor(ui, objects[k]) = speedDeratedByHalfPercent(ui, objects[k])
    /\ finalSpeedFor(ui, objects[k]) * 10
         >= (effectiveSpeedFor(ui, objects[k]) * clamp(turboOf(ui), 1, 40)) \div 10

\* the effective speed of claim C20, in mm/s: base x speedMult x zone
\* multiplier / mass, clamped to [0, 6 x base x max(0.01, speedMult)]
speedByMultiplierAndMass(u, obj) ==
  LET base == baseSpeed_mps(u)
      zoneMult == zoneAtPx(distanceToPixel(u, obj.covered_m)).multiplier
      eff == (base * obj.speedMult * zoneMult) \div (100 * Max(1, obj.mass))
  IN IF ~(base > 0) THEN 0
     ELSE clamp(eff, 0, (base * Max(1, obj.speedMult) * 6) \div 100)

\* C20: the effective speed of an object is base x speedMult x zone
\* multiplier / mass, clamped to [0, 6 x base x max(0.01, speedMult)], and a
\* larger mass never gives a larger effective speed.
C20_EffectiveSpeedFormula ==
  \A k \in Keys :
    /\ effectiveSpeedFor(ui, objects[k]) = speedByMultiplierAndMass(ui, objects[k])
    /\ \A m1 \in MidRunMasses, m2 \in MidRunMasses :
         m1 <= m2 => effectiveSpeedFor(ui, [objects[k] EXCEPT !.mass = m2])
                       <= effectiveSpeedFor(ui, [objects[k] EXCEPT !.mass = m1])

\* C21: simTime never decreases except through reset, it does not change
\* while the simulation is paused or finished, start and resume clear
\* lastTs, and the first tick after them adds nothing to simTime or to a
\* covered distance: the wall time spent paused is never integrated.
C21_SimTimeExcludesPausedTime ==
  [][/\ state'.simTime >= state.simTime \/ state' = resetState
     /\ ~state.running => state'.simTime = state.simTime \/ state' = resetState
     /\ (~state.running /\ state'.running) => state'.lastTs = Null
     /\ (state.lastTs = Null /\ state'.lastTs # Null) => simTick /\ state.running
     /\ (simTick /\ state.running /\ state.lastTs = Null) =>
          /\ state'.simTime = state.simTime
          /\ \A k \in Keys : objects'[k].covered_m <= objects[k].covered_m]_vars

\* a resumed run: the first tick of the frame after the resume has run and
\* recorded the simulation time of the tick before the pause a second time
C21_Witness ==
  /\ state.running
  /\ frameQueue # <<>>
  /\ hist.ctl = "start"
  /\ hist.cb = "ran"
  /\ state.simTime > 0
  /\ state.lastTs = now
  /\ Len(samples.t) >= 2
  /\ samples.t[Len(samples.t)] = samples.t[Len(samples.t) - 1]
  /\ state.simTime + 100 < now - InitTs

\* C22: startSimulation while running changes no state and registers no
\* callback; while not running with simTime > 0 it leaves simTime, the
\* covered distances, the trails and the samples as they are; with
\* simTime <= 0 it resets simTime, covered distances, trails and samples
\* before it runs.
C22_StartNoOpResumeOrReset ==
  [][startSimulation =>
       IF state.running
         THEN /\ state' = state
              /\ objects' = objects
              /\ samples' = samples
              /\ rafQueue' = rafQueue
         ELSE /\ state'.running
              /\ IF state.simTime > 0
                   THEN /\ state'.simTime = state.simTime
                        /\ objects' = objects
                        /\ samples' = samples
                   ELSE /\ state'.simTime = 0
                        /\ \A k \in Keys : /\ objects'[k].covered_m = 0
                                            /\ objects'[k].trail = <<>>
                        /\ \A f \in SampleFields : samples'[f] = <<>>]_vars

\* the state a resume leaves: running, no tick since, the run's time,
\* distances, trails and samples still there
C22_Witness ==
  /\ hist.ctl = "start"
  /\ state.running
  /\ state.lastTs = Null
  /\ state.simTime > 0
  /\ Len(samples.t) > 0
  /\ \E k \in Keys : objects[k].covered_m > 0 /\ Len(objects[k].trail) > 0

\* C23: the intro animation does not interfere with a run: while the
\* simulation is running, a covered distance is written only by simTick and
\* by resetSimulation, never by a frame callback of the intro.
C23_IntroLeavesRunAlone ==
  [][(state.running /\ \E k \in Keys : objects'[k].covered_m # objects[k].covered_m)
       => (simTick \/ resetSimulation)]_vars

\* the questions whose last recorded answer is the correct option
correctlyAnswered(q) ==
  {i \in 0..(quizLength - 1) : q.answers[i] = quizData[i + 1]}

\* C24: the score showResults reports is the number of questions whose last
\* recorded answer is the correct option, between 0 and the number of
\* questions; the percent is 100 x score / number of questions rounded to
\* the nearest integer; an option click replaces the answer of the question
\* displayed and no other, so that a question answered again counts once.
C24_ScoreCountsLastAnswers ==
  [][/\ quiz'.card = "results" =>
          /\ quiz'.score = Cardinality(correctlyAnswered(quiz'))
          /\ quiz'.score >= 0 /\ quiz'.score <= quizLength
          /\ 2 * quizLength * quiz'.percent - quizLength <= 200 * quiz'.score
          /\ 200 * quiz'.score < 2 * quizLength * quiz'.percent + quizLength
          /\ quiz'.sent = <<[score |-> quiz'.score, percent |-> quiz'.percent]>>
     /\ quiz'.clicks > quiz.clicks =>
          /\ quiz'.answers[quiz.index] \in OptionIndices
          /\ \A i \in 0..(quizLength - 1) :
               i # quiz.index => quiz'.answers[i] = quiz.answers[i]
     /\ quiz'.clicks = quiz.clicks => quiz'.answers = quiz.answers]_vars

\* results after a question was answered correctly twice: every question
\* counts once, and a percent that had to be rounded
C24_Witness ==
  /\ quiz.card = "results"
  /\ quiz.correctClicks > quiz.score
  /\ quiz.score = quizLength - 1
  /\ quiz.percent * quizLength # 100 * quiz.score

\* C25: once the quiz has started the question index stays within
\* [0, number of questions - 1]; Next is disabled from the load of a question
\* until one of its options is clicked; showResults is reached only from the
\* last question and only when every question has a recorded answer.
C25_NavigationInRangeAndGated ==
  /\ quiz.index >= 0 /\ quiz.index <= quizLength - 1
  /\ quiz.card = "quiz" =>
       /\ ~quiz.nextDisabled => (quiz.optDisabled /\ quiz.answers[quiz.index] # Null)
       /\ ~quiz.optDisabled => quiz.nextDisabled
       /\ \A i \in 0..(quiz.index - 1) : quiz.answers[i] # Null
  /\ quiz.card = "results" =>
       /\ quiz.index = quizLength - 1
       /\ \A i \in 0..(quizLength - 1) : quiz.answers[i] # Null

\* back on the first question after the last one was answered: Next is
\* disabled again although every question has an answer
C25_Witness ==
  /\ quiz.card = "quiz"
  /\ quiz.index = 0
  /\ quiz.nextDisabled
  /\ \A i \in 0..(quizLength - 1) : quiz.answers[i] # Null

====
